---- MODULE Spec2Model ----
(***************************************************************************)
(* plateboiler: the argument resolver (ProgramArguments::build), the       *)
(* tooling preflight check, the project orchestrators and the step runner  *)
(* (Terminal::run_cmd), as one sequential state machine.                   *)
(*                                                                         *)
(* Text is modelled as sequences of one-character strings, so that trim,   *)
(* to_lowercase, starts_with and split act on the characters.              *)
(***************************************************************************)
EXTENDS Integers, Sequences, FiniteSets, TLC

\* Largest number of tokens the argument iterator yields.
MaxArgs == 3

-----------------------------------------------------------------------------
\* Text helpers (std::str)

UpperLetters == <<"A","B","C","D","E","F","G","H","I","J","K","L","M",
                  "N","O","P","Q","R","S","T","U","V","W","X","Y","Z">>

LowerLetters == <<"a","b","c","d","e","f","g","h","i","j","k","l","m",
                  "n","o","p","q","r","s","t","u","v","w","x","y","z">>

WhiteSpace == {" ", "\n"}

\* char::to_lowercase on one character
LowerChar(c) ==
    IF \E i \in 1..Len(UpperLetters) : UpperLetters[i] = c
    THEN LowerLetters[CHOOSE i \in 1..Len(UpperLetters) : UpperLetters[i] = c]
    ELSE c

\* str::to_lowercase
to_lowercase(s) == [i \in 1..Len(s) |-> LowerChar(s[i])]

RECURSIVE trim_start(_)
trim_start(s) ==
    IF s # <<>> /\ Head(s) \in WhiteSpace THEN trim_start(Tail(s)) ELSE s

RECURSIVE trim_end(_)
trim_end(s) ==
    IF s # <<>> /\ s[Len(s)] \in WhiteSpace
    THEN trim_end(SubSeq(s, 1, Len(s) - 1))
    ELSE s

\* str::trim
trim(s) == trim_end(trim_start(s))

\* str::starts_with
starts_with(s, p) == Len(s) >= Len(p) /\ SubSeq(s, 1, Len(p)) = p

\* str::split on a one-character separator, collected: the pieces between
\* every occurrence of the separator (always at least one piece).
RECURSIVE split(_, _)
split(s, sep) ==
    IF \E i \in 1..Len(s) : s[i] = sep
    THEN LET i == CHOOSE k \in 1..Len(s) :
                      s[k] = sep /\ \A j \in 1..(k - 1) : s[j] # sep
         IN  <<SubSeq(s, 1, i - 1)>> \o split(SubSeq(s, i + 1, Len(s)), sep)
    ELSE <<s>>

-----------------------------------------------------------------------------
\* Data types

\* Option<ProjectType>::None
NoProjectType == "None"

ProjectTypes == {"Django", "React", "Next"}

\* Value(Option<String>)
ValueNone == [some |-> FALSE, text |-> <<>>]
ValueSome(t) == [some |-> TRUE, text |-> t]

\* enum Flag
Help == [tag |-> "Help"]
Verbose == [tag |-> "Verbose"]
Test == [tag |-> "Test"]
Name(v) == [tag |-> "Name", value |-> v]

\* ProgramError::new(message); the message is a template and the text
\* interpolated into it.
ProgramError(template, text) == [message |-> template, text |-> text]

\* PEResult values, and the two outcomes that are not values: the call has
\* not returned yet, and the call panicked.
Ok(v) == [kind |-> "Ok", value |-> v, error |-> ProgramError("", <<>>)]
Err(e) == [kind |-> "Err", value |-> "", error |-> e]
Panicked(why) == [kind |-> "Panic", value |-> why, error |-> ProgramError("", <<>>)]
Pending == [kind |-> "Pending", value |-> "", error |-> ProgramError("", <<>>)]

-----------------------------------------------------------------------------
\* Catalogs (constants.rs)

KwDjango == <<"d","j","a","n","g","o">>
KwReact == <<"r","e","a","c","t">>
KwNext == <<"n","e","x","t">>

VALID_PROJECT_OPTIONS ==
    << [name |-> KwDjango, project_type |-> "Django"],
       [name |-> KwReact, project_type |-> "React"],
       [name |-> KwNext, project_type |-> "Next"] >>

LongHelp == <<"-","-","h","e","l","p">>
ShortHelp == <<"-","h">>
LongVerbose == <<"-","-","v","e","r","b","o","s","e">>
ShortVerbose == <<"-","v">>
LongName == <<"-","-","n","a","m","e">>
ShortName == <<"-","n">>
LongTest == <<"-","-","t","e","s","t">>
ShortTest == <<"-","t">>

VALID_FLAGS ==
    << [long |-> LongHelp, short |-> ShortHelp, flag |-> Help],
       [long |-> LongVerbose, short |-> ShortVerbose, flag |-> Verbose],
       [long |-> LongName, short |-> ShortName, flag |-> Name(ValueNone)],
       [long |-> LongTest, short |-> ShortTest, flag |-> Test] >>

\* Iterator::find: the first of the indices that satisfy the predicate,
\* 0 when there is none.
FindIndex(matching) ==
    IF matching = {} THEN 0
    ELSE CHOOSE i \in matching : \A j \in matching : i <= j

-----------------------------------------------------------------------------
\* Argument resolver (data.rs, impl ProgramArguments)

MsgExtraType == "You can only provide one project type! Found extra type '{arg}'"
MsgNotProjectType == "'{s}' is not a valid project type, run again with --help or -h for more info."
MsgNotFlag == "'{key}' is not a valid flag, run again with --help or -h for more info."

\* The result of a mapping function: Ok carries the mapped item.
Mapped(item) == [kind |-> "Ok", item |-> item]
MapErr(e) == [kind |-> "Err", error |-> e]
MapPanic == [kind |-> "Panic"]

\* As map_string_to_project_type, but an unknown keyword falls back to the
\* first catalog entry instead of being an error.
map_string_to_project_type_default(s) ==
    LET i == FindIndex({ k \in 1..Len(VALID_PROJECT_OPTIONS) : VALID_PROJECT_OPTIONS[k].name = s })
    IN  IF i # 0
        THEN Mapped(VALID_PROJECT_OPTIONS[i].project_type)
        ELSE Mapped(VALID_PROJECT_OPTIONS[1].project_type)

\* As map_string_to_project_type, but the entry after the one found is
\* returned (an off-by-one in the table lookup).
map_string_to_project_type_shifted(s) ==
    LET i == FindIndex({ k \in 1..Len(VALID_PROJECT_OPTIONS) : VALID_PROJECT_OPTIONS[k].name = s })
    IN  IF i # 0
        THEN Mapped(VALID_PROJECT_OPTIONS[(i % Len(VALID_PROJECT_OPTIONS)) + 1].project_type)
        ELSE MapErr(ProgramError(MsgNotProjectType, s))

map_string_to_project_type(s) ==
    LET i == FindIndex({ k \in 1..Len(VALID_PROJECT_OPTIONS) : VALID_PROJECT_OPTIONS[k].name = s })
    IN  IF i # 0
        THEN Mapped(VALID_PROJECT_OPTIONS[i].project_type)
        ELSE MapErr(ProgramError(MsgNotProjectType, s))

\* As map_flag_with_value, but a Name flag with nothing after the '=' is
\* resolved like --name alone, to a Name flag without a value.
map_flag_with_value_dropping_empty(s) ==
    LET s_split == split(s, "=")
    IN  IF Len(s_split) < 2
        THEN MapPanic
        ELSE LET key == s_split[1]
                 value == s_split[2]
                 i == FindIndex({ k \in 1..Len(VALID_FLAGS) :
                                     key = VALID_FLAGS[k].long \/ key = VALID_FLAGS[k].short })
             IN  IF i # 0 /\ VALID_FLAGS[i].flag.tag = "Name"
                 THEN Mapped(Name(IF value = <<>> THEN ValueNone ELSE ValueSome(value)))
                 ELSE MapErr(ProgramError(MsgNotFlag, key))

\* s_split[1] is read without a length check: a token without '=' has one
\* piece only and the index is out of bounds, which panics.
map_flag_with_value(s) ==
    LET s_split == split(s, "=")
    IN  IF Len(s_split) < 2
        THEN MapPanic
        ELSE LET key == s_split[1]
                 value == s_split[2]
                 i == FindIndex({ k \in 1..Len(VALID_FLAGS) :
                                     key = VALID_FLAGS[k].long \/ key = VALID_FLAGS[k].short })
             IN  IF i # 0
                 THEN IF VALID_FLAGS[i].flag.tag = "Name"
                      THEN Mapped(Name(ValueSome(value)))
                      ELSE MapErr(ProgramError(MsgNotFlag, key))
                 ELSE MapErr(ProgramError(MsgNotFlag, key))

\* As map_string_to_flag, but only the long form is compared.
map_string_to_flag_long_only(s) ==
    LET i == FindIndex({ k \in 1..Len(VALID_FLAGS) : VALID_FLAGS[k].long = s })
    IN  IF i # 0
        THEN Mapped(VALID_FLAGS[i].flag)
        ELSE map_flag_with_value(s)

map_string_to_flag(s) ==
    LET i == FindIndex({ k \in 1..Len(VALID_FLAGS) : VALID_FLAGS[k].long = s \/ VALID_FLAGS[k].short = s })
    IN  IF i # 0
        THEN Mapped(VALID_FLAGS[i].flag)
        ELSE map_flag_with_value(s)

\* As normalise, but the letter case is kept.
normalise_keeping_case(raw_arg) == trim(raw_arg)

\* The token as the loop body sees it: arg.trim().to_lowercase()
normalise(raw_arg) == to_lowercase(trim(raw_arg))

Dash == <<"-">>

\* As build_iter, but a second project-type token replaces the first
\* instead of being an error.
build_iter_last_wins(pt, fl, arg) ==
    IF starts_with(arg, Dash)
    THEN LET r == map_string_to_flag(arg)
         IN  CASE r.kind = "Ok" ->
                    [project_type |-> pt, flags |-> Append(fl, r.item), result |-> Pending]
               [] r.kind = "Err" ->
                    [project_type |-> pt, flags |-> fl, result |-> Err(r.error)]
               [] OTHER ->
                    [project_type |-> pt, flags |-> fl,
                     result |-> Panicked("index out of bounds")]
    ELSE LET r == map_string_to_project_type(arg)
         IN  IF r.kind = "Ok"
             THEN [project_type |-> r.item, flags |-> fl, result |-> Pending]
             ELSE [project_type |-> pt, flags |-> fl, result |-> Err(r.error)]

\* One iteration of the while loop of build on the normalised token arg,
\* from the locals pt (project_type) and fl (flags): the locals after it
\* and whether build goes on ("Pending"), returns an error or panics.
build_iter(pt, fl, arg) ==
    IF starts_with(arg, Dash)
    THEN LET r == map_string_to_flag(arg)
         IN  CASE r.kind = "Ok" ->
                    [project_type |-> pt, flags |-> Append(fl, r.item), result |-> Pending]
               [] r.kind = "Err" ->
                    [project_type |-> pt, flags |-> fl, result |-> Err(r.error)]
               [] OTHER ->
                    [project_type |-> pt, flags |-> fl,
                     result |-> Panicked("index out of bounds")]
    ELSE IF pt = NoProjectType
    THEN LET r == map_string_to_project_type(arg)
         IN  IF r.kind = "Ok"
             THEN [project_type |-> r.item, flags |-> fl, result |-> Pending]
             ELSE [project_type |-> pt, flags |-> fl, result |-> Err(r.error)]
    ELSE [project_type |-> pt, flags |-> fl,
          result |-> Err(ProgramError(MsgExtraType, arg))]

-----------------------------------------------------------------------------
\* Tokens the argument iterator can yield

Eq == <<"=">>
ValApp == <<"a","p","p">>
ValB == <<"b">>
ValAEqB == <<"a","=","b">>

TokenPool ==
    { KwDjango, KwReact, KwNext,
      <<" ","R","e","a","c","t">>,
      <<"v","u","e">>,
      LongHelp, ShortHelp, LongVerbose, ShortVerbose,
      LongName, ShortName, LongTest, ShortTest,
      <<"-","T"," ">>,
      LongName \o Eq \o ValApp,
      ShortName \o Eq \o ValB,
      <<"-","-","N","a","m","e","=","A","p","p">>,
      LongName \o Eq,
      LongName \o Eq \o ValAEqB,
      LongHelp \o Eq \o <<"x">>,
      <<"-","-","f","o","o","=","x">>,
      <<"-","-","f","o","o">>,
      <<"-","x">> }

-----------------------------------------------------------------------------
\* Help (data.rs, Flag::handle_help_flag) and flag queries (impl Flag)

Contains(fl, f) == \E i \in 1..Len(fl) : fl[i] = f

\* As handle_help_flag, but help is handled only when no project type is
\* given.
handle_help_flag_general_only(pt, fl) ==
    IF Contains(fl, Help) /\ pt = NoProjectType
    THEN [did |-> "Yes", printed |-> "CLI help"]
    ELSE [did |-> "No", printed |-> ""]

\* What handle_help_flag prints and whether it did something.
handle_help_flag(pt, fl) ==
    IF Contains(fl, Help)
    THEN IF pt # NoProjectType
         THEN LET i == FindIndex({ k \in 1..Len(VALID_PROJECT_OPTIONS) : VALID_PROJECT_OPTIONS[k].project_type = pt })
              IN  [did |-> "Yes",
                   printed |-> IF i # 0 THEN "PROJECT TYPE help"
                               ELSE "No help text found for project type"]
         ELSE [did |-> "Yes", printed |-> "CLI help"]
    ELSE [did |-> "No", printed |-> ""]

IsName(f) == f.tag = "Name"

\* Option<String>: the name some Name flag sets
NoName == [some |-> FALSE, text |-> <<>>]
SomeName(t) == [some |-> TRUE, text |-> t]

\* flags.iter().find(Name(_)) and then the value of the flag found
get_project_name(fl) ==
    LET i == FindIndex({ k \in 1..Len(fl) : IsName(fl[k]) })
    IN  IF i # 0 /\ fl[i].value.some THEN SomeName(fl[i].value.text) ELSE NoName

is_test_run(fl) == Contains(fl, Test)

-----------------------------------------------------------------------------
\* Tooling preflight (data.rs check_for_*_tooling, utils.rs)

\* std::env::consts::OS of the build; cfg!(windows) is OS = "windows"
OSes == {"linux", "windows", "macos"}

\* What happens to a command handed to the shell: the shell could not be
\* spawned, or it ran and exited with status zero or non-zero.
Outcomes == {"spawn_err", "exit_zero", "exit_nonzero"}

\* Debug formatting of a ProjectType, {self:?}
DebugName(pt) ==
    CASE pt = "Django" -> <<"D","j","a","n","g","o">>
      [] pt = "React" -> <<"R","e","a","c","t">>
      [] pt = "Next" -> <<"N","e","x","t">>
      [] OTHER -> <<>>

\* The probe groups of each check_for_*_tooling, in the order they run
ProbeGroups(pt) ==
    CASE pt = "Django" ->
           << [cmds |-> <<"python --version", "python3 -version">>,
               msg |-> "Could not confirm if python is installed, in order to set up a {self:?} project."],
              [cmds |-> <<"python -m venv --help", "python3 -m venv --help">>,
               msg |-> "Could not confirm if the venv module is installed, in order to set up a {self:?} project."],
              [cmds |-> <<"python -m pip --version", "python3 -m pip --version">>,
               msg |-> "Could not confirm if the pip package manager is installed, in order to set up a {self:?} project."] >>
      [] pt = "React" ->
           << [cmds |-> <<"node --version">>,
               msg |-> "Could not confirm if Node js is installed, in order to set up a {self:?} project."],
              [cmds |-> <<"npm --version">>,
               msg |-> "Could not confirm if Npm is installed, in order to set up a {self:?} project."] >>
      [] pt = "Next" ->
           << [cmds |-> <<"node --version || deno --version">>,
               msg |-> "Could not confirm if any of Node, or Deno is installed, in order to set up a {self:?} project."],
              [cmds |-> <<"npm --version || yarn --version || pnpm --version || deno --version">>,
               msg |-> "Could not confirm if any of Npm, Yarn, Pnpm, or Deno is installed, in order to set up a {self:?} project."] >>
      [] OTHER -> << >>

\* run_seperate_cmd: TRUE for Ok(()). Only a failure to spawn the shell is
\* an error; the exit status of the command is not looked at.
run_seperate_cmd(target_os, outcome) ==
    IF target_os = "linux" THEN outcome # "spawn_err"
    ELSE IF target_os = "windows" THEN outcome # "spawn_err"
    ELSE FALSE

\* check_if_any_command_passes: TRUE for Ok(()). Every command is run.
check_if_any_command_passes(target_os, outcomes) ==
    \E i \in 1..Len(outcomes) : run_seperate_cmd(target_os, outcomes[i])

\* Whether run_seperate_cmd hands its command to a shell at all
SpawnsShell(target_os) == target_os \in {"linux", "windows"}

-----------------------------------------------------------------------------
\* Step runner (data.rs, impl Terminal) and orchestrators

Slash == <<"/">>
CurrentDir == <<".">>
TestRunsDir == <<"t","e","s","t","_","r","u","n","s">>

\* Path::join
join(base, p) == base \o Slash \o p

\* As TerminalNew, but the Terminal stays in the current directory.
TerminalNew_in_current_dir(target_os, working_dir) ==
    IF target_os = "windows"
    THEN [base_shell_args |-> <<"cmd", "/C">>, working_dir |-> CurrentDir]
    ELSE [base_shell_args |-> <<"sh", "-c">>, working_dir |-> CurrentDir]

\* Terminal::new
TerminalNew(target_os, working_dir) ==
    IF target_os = "windows"
    THEN [base_shell_args |-> <<"cmd", "/C">>, working_dir |-> working_dir]
    ELSE [base_shell_args |-> <<"sh", "-c">>, working_dir |-> working_dir]

NoTerminal == [base_shell_args |-> <<"", "">>, working_dir |-> <<>>]

\* The text of a std::io::Error, appended to a message
IoErrorText == <<"i","o">>

\* As run_cmd, but the exit status is not looked at (as in
\* run_seperate_cmd).
run_cmd_ignoring_status(err_msg, outcome) ==
    CASE outcome = "spawn_err" -> Err(ProgramError(err_msg, IoErrorText))
      [] OTHER -> Ok("()")

\* Terminal::run_cmd: the result for what the spawned command did
run_cmd(err_msg, outcome) ==
    CASE outcome = "spawn_err" -> Err(ProgramError(err_msg, IoErrorText))
      [] outcome = "exit_nonzero" -> Err(ProgramError(err_msg, <<>>))
      [] OTHER -> Ok("()")

activate_cmd(target_os) ==
    IF target_os = "windows" THEN "env\\Scripts\\activate.bat" ELSE "source env/bin/activate"

\* The steps of each orchestrator, in order: command after format!, and
\* failure message
Steps(pt, target_os) ==
    CASE pt = "Django" ->
           << [cmd |-> <<"python -m venv env">>,
               err_msg |-> "Failed to create virtual env."],
              [cmd |-> <<activate_cmd(target_os), "&& pip install django">>,
               err_msg |-> "Failed to install django with pip."],
              [cmd |-> <<activate_cmd(target_os), "&& django-admin startproject core .">>,
               err_msg |-> "Failed to start a django project."],
              [cmd |-> <<activate_cmd(target_os), "&& python manage.py runserver">>,
               err_msg |-> "Failed to run dev server."] >>
      [] pt = "React" ->
           << [cmd |-> <<"npm create vite@latest">>,
               err_msg |-> "Failed to create vite app with npm."],
              [cmd |-> <<"npm install">>,
               err_msg |-> "Failed to install node modules."],
              [cmd |-> <<"npm run dev">>,
               err_msg |-> "Failed to run dev server."] >>
      [] OTHER -> << >>

\* What the file system did for the orchestrator. test_runs: not looked at
\* ("unchecked"), found by try_exists ("exists"), created ("made") or not
\* creatable ("failed"); project: not tried ("untried"), created ("made"),
\* or already there or not creatable ("failed").
NoFs == [test_runs |-> "unchecked", project |-> "untried"]

MsgTestRunsDir == "Failed to create test_runs directory '{}'. "
MsgProjectDir == "Failed to create project folder '{}'. "

\* As create_dirs, but the result of creating the project directory is not
\* looked at.
create_dirs_unchecked(is_test, name, test_runs_exists, test_runs_made, proj_made) ==
    LET path == IF is_test THEN TestRunsDir \o Slash \o name ELSE name
        test_runs == IF ~is_test THEN "unchecked"
                     ELSE IF test_runs_exists THEN "exists"
                     ELSE IF test_runs_made THEN "made" ELSE "failed"
        staging == IF test_runs = "made" THEN <<TestRunsDir>> ELSE <<>>
    IN  IF test_runs = "failed"
        THEN [path |-> path, made |-> <<>>,
              fs |-> [test_runs |-> "failed", project |-> "untried"],
              result |-> Err(ProgramError(MsgTestRunsDir, IoErrorText))]
        ELSE IF ~proj_made \/ name = <<>>
        THEN [path |-> path, made |-> staging,
              fs |-> [test_runs |-> test_runs, project |-> "failed"],
              result |-> Pending]
        ELSE [path |-> path, made |-> staging \o <<path>>,
              fs |-> [test_runs |-> test_runs, project |-> "made"],
              result |-> Pending]

\* The directory creation of set_up_django_project / set_up_react_project
\* for the trimmed name, given what the file system does: whether
\* test_runs is there, whether it can be created, whether the project
\* directory can be created (a directory with an empty name never can).
\* path: proj_name afterwards; made: the directories created, in order;
\* result: the error returned, Pending when the orchestrator goes on.
create_dirs(is_test, name, test_runs_exists, test_runs_made, proj_made) ==
    LET path == IF is_test THEN TestRunsDir \o Slash \o name ELSE name
        test_runs == IF ~is_test THEN "unchecked"
                     ELSE IF test_runs_exists THEN "exists"
                     ELSE IF test_runs_made THEN "made" ELSE "failed"
        staging == IF test_runs = "made" THEN <<TestRunsDir>> ELSE <<>>
    IN  IF test_runs = "failed"
        THEN [path |-> path, made |-> <<>>,
              fs |-> [test_runs |-> "failed", project |-> "untried"],
              result |-> Err(ProgramError(MsgTestRunsDir, IoErrorText))]
        ELSE IF ~proj_made \/ name = <<>>
        THEN [path |-> path, made |-> staging,
              fs |-> [test_runs |-> test_runs, project |-> "failed"],
              result |-> Err(ProgramError(MsgProjectDir, IoErrorText))]
        ELSE [path |-> path, made |-> staging \o <<path>>,
              fs |-> [test_runs |-> test_runs, project |-> "made"],
              result |-> Pending]

\* Lines prompt_input can read from standard input
PromptLines == { <<"w","e","b","\n">>, <<"\n">> }

\* First entry read_dir yields in the project directory after scaffolding:
\* none, or an entry of that name
DirEntries == { <<>>, <<"v","i","t","e","-","p","r","o","j","e","c","t">> }

-----------------------------------------------------------------------------
VARIABLES
    os,             \* consts::OS, fixed by the build
    pc,             \* where the program is
    consumed,       \* number of tokens raw_args has yielded
    raw,            \* the last token raw_args yielded, as given
    arg,            \* local arg of build: that token, normalised
    project_type,   \* local project_type of build, then ProgramArguments.project_type
    flags,          \* local flags of build, then ProgramArguments.flags
    build_result,   \* what ProgramArguments::build returned
    selectors,      \* number of tokens without the '-' prefix build has met
    run_result,     \* what run_program returned
    stdout,         \* what the program printed, in order
    group,          \* index of the probe group check_for_required_tooling is at
    probes,         \* history of the probe commands run so far
    flag_set_proj_name, \* local of set_up_*_project
    proj_name,      \* local of set_up_*_project
    prompts,        \* number of times prompt_input was called
    dirs_created,   \* directories the program created, in order
    terminal,       \* the Terminal of the orchestrator
    step,           \* index of the step the orchestrator is at
    steps_run,      \* history of the commands run through Terminal::run_cmd
    fs,             \* history of what the file system did for the orchestrator
    cd_entry        \* the entry read_dir yielded first in set_up_react_project

build_vars == <<consumed, raw, arg, project_type, flags, build_result, selectors>>
check_vars == <<group, probes>>
setup_vars == <<flag_set_proj_name, proj_name, prompts, dirs_created, terminal, step,
               steps_run, fs, cd_entry>>

vars == <<os, pc, build_vars, run_result, stdout, check_vars, setup_vars>>

\* Nothing probed yet. run: commands handed to a shell; all_nonzero: each
\* of them exited non-zero; unmet: the first group in which no command
\* exited zero (0: none so far); result: what check_for_required_tooling
\* returned.
NoProbes == [run |-> 0, all_nonzero |-> TRUE, unmet |-> 0, result |-> "Pending"]

Init ==
    /\ os \in OSes
    /\ pc = "build"
    /\ consumed = 0
    /\ raw = <<>>
    /\ arg = <<>>
    /\ project_type = NoProjectType
    /\ flags = <<>>
    /\ build_result = Pending
    /\ selectors = 0
    /\ run_result = Pending
    /\ stdout = <<>>
    /\ group = 0
    /\ probes = NoProbes
    /\ flag_set_proj_name = NoName
    /\ proj_name = <<>>
    /\ prompts = 0
    /\ dirs_created = <<>>
    /\ terminal = NoTerminal
    /\ step = 0
    /\ steps_run = <<>>
    /\ fs = NoFs
    /\ cd_entry = <<>>

\* raw_args.next() yields Some(token): one iteration of the loop of build
BuildArg ==
    /\ pc = "build"
    /\ consumed < MaxArgs
    /\ \E token \in TokenPool :
         LET it == build_iter(project_type, flags, normalise(token))
         IN  /\ raw' = token
             /\ arg' = normalise(token)
             /\ consumed' = consumed + 1
             /\ project_type' = it.project_type
             /\ flags' = it.flags
             /\ build_result' = it.result
             /\ selectors' = IF starts_with(normalise(token), Dash)
                             THEN selectors ELSE selectors + 1
             /\ pc' = CASE it.result.kind = "Pending" -> "build"
                        [] it.result.kind = "Err" -> "main_args"
                        [] OTHER -> "panicked"
    /\ UNCHANGED <<os, run_result, stdout, check_vars, setup_vars>>

\* raw_args.next() yields None: build returns Ok(Self { project_type, flags })
BuildReturn ==
    /\ pc = "build"
    /\ build_result' = Ok("ProgramArguments")
    /\ pc' = "main_args"
    /\ UNCHANGED <<os, consumed, raw, arg, project_type, flags, selectors, run_result,
                   stdout, check_vars, setup_vars>>

\* main: get_program_args returned Err, the error is printed and the
\* process exits
MainArgsErr ==
    /\ pc = "main_args"
    /\ build_result.kind = "Err"
    /\ stdout' = Append(stdout, build_result.error.message)
    /\ pc' = "exited"
    /\ UNCHANGED <<os, build_vars, run_result, check_vars, setup_vars>>

\* As run_program_entry, but a missing project type is not an error.
run_program_entry_lenient(pt, fl) ==
    LET h == handle_help_flag(pt, fl)
    IN  IF h.did = "Yes"
        THEN [pc |-> "main_run", printed |-> <<h.printed>>, result |-> Ok("END OF HELP SECTION")]
        ELSE IF pt # NoProjectType
        THEN [pc |-> "check_tooling", printed |-> <<>>, result |-> Pending]
        ELSE [pc |-> "main_run", printed |-> <<>>, result |-> Ok("DONE")]

\* run_program on the resolved project type pt and flags fl, up to its call
\* of check_for_required_tooling: what it prints, and what it returns when
\* it returns at once (Pending: it goes on to the check)
run_program_entry(pt, fl) ==
    LET h == handle_help_flag(pt, fl)
    IN  IF h.did = "Yes"
        THEN [pc |-> "main_run", printed |-> <<h.printed>>, result |-> Ok("END OF HELP SECTION")]
        ELSE IF pt # NoProjectType
        THEN [pc |-> "check_tooling", printed |-> <<>>, result |-> Pending]
        ELSE [pc |-> "main_run", printed |-> <<>>,
              result |-> Err(ProgramError("No valid project type provided", <<>>))]

\* run_program up to its call of check_for_required_tooling
RunProgram ==
    /\ pc = "main_args"
    /\ build_result.kind = "Ok"
    /\ LET e == run_program_entry(project_type, flags)
       IN  /\ stdout' = stdout \o e.printed
           /\ run_result' = IF e.pc = "main_run" THEN e.result ELSE run_result
           /\ group' = IF e.pc = "check_tooling" THEN 1 ELSE group
           /\ pc' = e.pc
    /\ UNCHANGED <<os, build_vars, probes, setup_vars>>

\* As after_tooling_check, but an error of check_for_required_tooling is
\* not propagated.
after_tooling_check_unpropagated(check_result) ==
    IF check_result = "Pending" THEN "check_tooling" ELSE "set_up"

\* run_program, `check_for_required_tooling()?` and what follows: where the
\* program goes once the check returned check_result ("Pending": the check
\* has more groups to go through)
after_tooling_check(check_result) ==
    CASE check_result = "Err" -> "main_run"
      [] check_result = "Ok" -> "set_up"
      [] OTHER -> "check_tooling"

\* check_for_*_tooling: one probe group, that is one call of
\* check_if_any_command_passes and the return that follows it
CheckGroup ==
    /\ pc = "check_tooling"
    /\ LET groups == ProbeGroups(project_type)
           g == groups[group]
       IN  \E outcomes \in [1..Len(g.cmds) -> Outcomes] :
             LET check_result ==
                     IF ~check_if_any_command_passes(os, outcomes) THEN "Err"
                     ELSE IF group < Len(groups) THEN "Pending" ELSE "Ok"
             IN  /\ probes' =
                      [run |-> IF SpawnsShell(os) THEN probes.run + Len(g.cmds) ELSE probes.run,
                       all_nonzero |->
                           IF SpawnsShell(os)
                           THEN probes.all_nonzero /\
                                \A i \in 1..Len(g.cmds) : outcomes[i] = "exit_nonzero"
                           ELSE probes.all_nonzero,
                       unmet |->
                           IF /\ SpawnsShell(os)
                              /\ probes.unmet = 0
                              /\ \A i \in 1..Len(g.cmds) : outcomes[i] # "exit_zero"
                           THEN group ELSE probes.unmet,
                       result |-> check_result]
                 /\ run_result' = IF check_result = "Err"
                                  THEN Err(ProgramError(g.msg, DebugName(project_type)))
                                  ELSE run_result
                 /\ group' = IF check_result = "Pending" THEN group + 1 ELSE group
                 /\ pc' = after_tooling_check(check_result)
    /\ UNCHANGED <<os, build_vars, stdout, setup_vars>>

\* set_up_next_project: todo!() panics
SetUpNext ==
    /\ pc = "set_up"
    /\ project_type = "Next"
    /\ run_result' = Panicked("not yet implemented: set_up_next_project")
    /\ pc' = "panicked"
    /\ UNCHANGED <<os, build_vars, stdout, check_vars, setup_vars>>

\* set_up_django_project / set_up_react_project: the project name, from
\* the flags or else from the prompt
SetUpName ==
    /\ pc = "set_up"
    /\ project_type \in {"Django", "React"}
    /\ LET n == get_project_name(flags)
       IN  /\ flag_set_proj_name' = n
           /\ IF n.some
              THEN /\ proj_name' = trim(n.text)
                   /\ pc' = "mkdir"
                   /\ UNCHANGED <<prompts, run_result>>
              ELSE /\ prompts' = prompts + 1
                   /\ \/ \E line \in PromptLines :
                           /\ proj_name' = trim(line)
                           /\ pc' = "mkdir"
                           /\ UNCHANGED run_result
                      \/ /\ run_result' =
                              Err(ProgramError("failed to read user input: {}", IoErrorText))
                         /\ pc' = "main_run"
                         /\ UNCHANGED proj_name
    /\ UNCHANGED <<os, build_vars, stdout, check_vars, dirs_created, terminal, step,
                   steps_run, fs, cd_entry>>

\* set_up_django_project / set_up_react_project: the test_runs directory
\* under a test run, the project directory, and the Terminal.
\* env::current_dir() is taken to succeed: the project directory was just
\* created relative to it.
SetUpDir ==
    /\ pc = "mkdir"
    /\ \E test_runs_exists \in BOOLEAN, test_runs_made \in BOOLEAN, proj_made \in BOOLEAN :
         LET d == create_dirs(is_test_run(flags), proj_name,
                              test_runs_exists, test_runs_made, proj_made)
         IN  /\ proj_name' = d.path
             /\ fs' = d.fs
             /\ dirs_created' = dirs_created \o d.made
             /\ IF d.result.kind = "Err"
                THEN /\ run_result' = d.result
                     /\ pc' = "main_run"
                     /\ UNCHANGED <<terminal, step>>
                ELSE /\ terminal' = TerminalNew(os, join(CurrentDir, d.path))
                     /\ step' = 1
                     /\ pc' = "steps"
                     /\ UNCHANGED run_result
    /\ UNCHANGED <<os, build_vars, stdout, check_vars, flag_set_proj_name, prompts,
                   steps_run, cd_entry>>

\* As after_step, but the error of a failed step is swallowed and the
\* orchestrator returns as if it had finished.
after_step_swallowing(pt, target_os, at, r) ==
    IF r.kind = "Err" \/ at = Len(Steps(pt, target_os))
    THEN [pc |-> "main_run", step |-> at, result |-> Ok("DONE")]
    ELSE [pc |-> IF pt = "React" /\ at = 1 THEN "cd" ELSE "steps",
          step |-> at + 1, result |-> Pending]

\* The `?` after run_cmd number `at` returned r, and what follows it: the
\* error is returned through set_up and run_program; after the last step
\* set_up returns Ok(()) and run_program Ok("DONE"); otherwise the next
\* step is up, in set_up_react_project after the "cd into project" block
\* when the step was the first.
after_step(pt, target_os, at, r) ==
    IF r.kind = "Err"
    THEN [pc |-> "main_run", step |-> at, result |-> r]
    ELSE IF at = Len(Steps(pt, target_os))
    THEN [pc |-> "main_run", step |-> at, result |-> Ok("DONE")]
    ELSE [pc |-> IF pt = "React" /\ at = 1 THEN "cd" ELSE "steps",
          step |-> at + 1, result |-> Pending]

\* One terminal.run_cmd(...)? of the orchestrator, and the return of
\* set_up and run_program that follows the last one
RunCmd ==
    /\ pc = "steps"
    /\ LET s == Steps(project_type, os)[step]
       IN  \E outcome \in Outcomes :
             LET a == after_step(project_type, os, step, run_cmd(s.err_msg, outcome))
             IN  /\ steps_run' = Append(steps_run,
                        [cmd |-> s.cmd, err_msg |-> s.err_msg, outcome |-> outcome,
                         shell |-> terminal.base_shell_args,
                         dir |-> terminal.working_dir])
                 /\ run_result' = IF a.pc = "main_run" THEN a.result ELSE run_result
                 /\ step' = a.step
                 /\ pc' = a.pc
    /\ UNCHANGED <<os, build_vars, stdout, check_vars, flag_set_proj_name, proj_name,
                   prompts, dirs_created, terminal, fs, cd_entry>>

\* As cd_into_project, but the Terminal is left where it was.
cd_into_project_staying(t, proj_dir, entry) == t

\* The "cd into project" block of set_up_react_project on Terminal t:
\* entry is the name of the first entry read_dir yields in proj_dir, <<>>
\* when read_dir fails, yields nothing or yields an error
cd_into_project(t, proj_dir, entry) ==
    IF entry # <<>>
    THEN [t EXCEPT !.working_dir = join(proj_dir, entry)]
    ELSE t

\* set_up_react_project, "cd into project": the working directory becomes
\* the first entry read_dir yields in the project directory, if any
ReactCd ==
    /\ pc = "cd"
    /\ \E entry \in DirEntries :
         /\ cd_entry' = entry
         /\ terminal' = cd_into_project(terminal, join(CurrentDir, proj_name), entry)
    /\ pc' = "steps"
    /\ UNCHANGED <<os, build_vars, run_result, stdout, check_vars, flag_set_proj_name,
                   proj_name, prompts, dirs_created, step, steps_run, fs>>

\* main: run_program returned, its message or its error is printed
MainRunResult ==
    /\ pc = "main_run"
    /\ stdout' = Append(stdout, IF run_result.kind = "Ok" THEN run_result.value
                                ELSE run_result.error.message)
    /\ pc' = "exited"
    /\ UNCHANGED <<os, build_vars, run_result, check_vars, setup_vars>>

Next ==
    \/ BuildArg
    \/ BuildReturn
    \/ MainArgsErr
    \/ RunProgram
    \/ CheckGroup
    \/ SetUpNext
    \/ SetUpName
    \/ SetUpDir
    \/ RunCmd
    \/ ReactCd
    \/ MainRunResult

Spec == Init /\ [][Next]_vars

-----------------------------------------------------------------------------
\* Properties

Keywords == { VALID_PROJECT_OPTIONS[i].name : i \in 1..Len(VALID_PROJECT_OPTIONS) }

Spellings ==
    { VALID_FLAGS[i].long : i \in 1..Len(VALID_FLAGS) } \cup
    { VALID_FLAGS[i].short : i \in 1..Len(VALID_FLAGS) }

HasEq(s) == \E i \in 1..Len(s) : s[i] = "="

\* C1: when build meets a token without the '-' prefix while a project type
\* is already recorded, it returns the error that names that token, and a
\* build that returns Ok has met at most one such token.
C1_ExtraProjectTypeRejected ==
    [][ /\ ( /\ pc = "build"
             /\ consumed' = consumed + 1
             /\ project_type # NoProjectType
             /\ ~starts_with(arg', Dash) )
           => ( /\ build_result'.kind = "Err"
                /\ build_result'.error = ProgramError(MsgExtraType, arg')
                /\ pc' = "main_args" )
        /\ ( build_result'.kind = "Ok" => selectors' <= 1 )
      ]_vars

C1_Witness ==
    /\ build_result.kind = "Err"
    /\ build_result.error.message = MsgExtraType
    /\ build_result.error.text = KwReact
    /\ project_type = "Django"
    /\ selectors = 2

\* C2: a token with the '-' prefix, without '=', that is no long or short
\* form of the flag catalog makes build return the "not a valid flag" error.
C2_UnknownFlagIsError ==
    ( /\ consumed >= 1
      /\ starts_with(arg, Dash)
      /\ ~HasEq(arg)
      /\ arg \notin Spellings )
    => ( /\ build_result.kind = "Err"
         /\ build_result.error.message = MsgNotFlag )

\* C3: build on the single token django, react or next returns Ok with
\* that keyword's project type and no flags.
C3_SingleKeyword ==
    \A kw \in { <<KwDjango, "Django">>, <<KwReact, "React">>, <<KwNext, "Next">> } :
        ( /\ build_result.kind # "Pending"
          /\ consumed = 1
          /\ raw = kw[1] )
        => ( /\ build_result.kind = "Ok"
             /\ project_type = kw[2]
             /\ flags = <<>> )

C3_Witness ==
    /\ build_result.kind = "Ok"
    /\ consumed = 1
    /\ raw = KwNext
    /\ project_type = "Next"
    /\ flags = <<>>

\* C4: build on the single token that is a long or short flag spelling
\* returns Ok with no project type and exactly the flag of that spelling.
C4_SingleFlagSpelling ==
    \A sp \in { <<LongHelp, Help>>, <<ShortHelp, Help>>,
                <<LongVerbose, Verbose>>, <<ShortVerbose, Verbose>>,
                <<LongName, Name(ValueNone)>>, <<ShortName, Name(ValueNone)>>,
                <<LongTest, Test>>, <<ShortTest, Test>> } :
        ( /\ build_result.kind # "Pending"
          /\ consumed = 1
          /\ raw = sp[1] )
        => ( /\ build_result.kind = "Ok"
             /\ project_type = NoProjectType
             /\ flags = <<sp[2]>> )

C4_Witness ==
    /\ build_result.kind = "Ok"
    /\ consumed = 1
    /\ raw = ShortTest
    /\ project_type = NoProjectType
    /\ flags = <<Test>>

\* C5: the first token without the '-' prefix that build meets, when it is
\* no keyword of the project-type catalog, makes build return the "not a
\* valid project type" error naming it; build reads no further token.
C5_UnknownProjectTypeIsError ==
    ( /\ consumed >= 1
      /\ ~starts_with(arg, Dash)
      /\ arg \notin Keywords
      /\ selectors = 1 )
    => ( /\ build_result.kind = "Err"
         /\ build_result.error = ProgramError(MsgNotProjectType, arg)
         /\ project_type = NoProjectType
         /\ pc \in {"main_args", "exited"} )

C5_Witness ==
    /\ consumed = 2
    /\ flags = <<Verbose>>
    /\ arg = <<"v","u","e">>
    /\ build_result.kind = "Err"
    /\ build_result.error.message = MsgNotProjectType

\* C6: a token --name=v or -n=v resolves to a Name flag that carries all
\* the text after the first '=' of the normalised token.
C6_NameCarriesTextAfterEq ==
    \A prefix \in { LongName \o Eq, ShortName \o Eq } :
        ( consumed >= 1 /\ starts_with(arg, prefix) )
        => ( /\ build_result.kind \in {"Pending", "Ok"}
             /\ flags # <<>>
             /\ flags[Len(flags)] =
                    Name(ValueSome(SubSeq(arg, Len(prefix) + 1, Len(arg)))) )

NameFlags(fl) == { i \in 1..Len(fl) : IsName(fl[i]) }

LastNameFlag(fl) == fl[CHOOSE i \in NameFlags(fl) : \A j \in NameFlags(fl) : j <= i]

\* C7: with more than one Name flag, the orchestrator takes the project name
\* from the last Name flag: its value when it has one, the prompt otherwise.
C7_LastNameWins ==
    ( /\ pc = "mkdir"
      /\ Cardinality(NameFlags(flags)) > 1 )
    => IF LastNameFlag(flags).value.some
       THEN proj_name = trim(LastNameFlag(flags).value.text) /\ prompts = 0
       ELSE prompts = 1

\* C8: a step whose command exits non-zero is the last step run, and
\* run_program returns the error that is exactly the failure message
\* configured for that step.
C8_FailedStepAborts ==
    \A i \in 1..Len(steps_run) :
        steps_run[i].outcome = "exit_nonzero"
        => ( /\ i = Len(steps_run)
             /\ steps_run[i].err_msg = Steps(project_type, os)[i].err_msg
             /\ run_result.kind = "Err"
             /\ run_result.error = ProgramError(Steps(project_type, os)[i].err_msg, <<>>)
             /\ pc \in {"main_run", "exited"} )

C8_Witness ==
    /\ Len(steps_run) = 3
    /\ steps_run[2].outcome = "exit_zero"
    /\ steps_run[3].outcome = "exit_nonzero"
    /\ project_type = "Django"
    /\ pc = "exited"

\* C9: when every probe command exits non-zero, check_for_required_tooling
\* has returned one of the project type's tooling errors, naming the type.
C9_AbsentToolingIsError ==
    ( /\ pc # "check_tooling"
      /\ probes.run > 0
      /\ probes.all_nonzero )
    => ( /\ run_result.kind = "Err"
         /\ run_result.error.text = DebugName(project_type)
         /\ \E g \in 1..Len(ProbeGroups(project_type)) :
                run_result.error.message = ProbeGroups(project_type)[g].msg )

\* C10: with a Help flag among the resolved flags, run_program prints help
\* and returns Ok("END OF HELP SECTION"); no probe is run, no name prompted
\* for, no directory created and no step run.
C10_HelpHasNoSideEffect ==
    ( build_result.kind = "Ok" /\ Contains(flags, Help) )
    => ( /\ pc \in {"main_args", "main_run", "exited"}
         /\ probes.run = 0
         /\ prompts = 0
         /\ dirs_created = <<>>
         /\ steps_run = <<>>
         /\ pc \in {"main_run", "exited"}
                => ( /\ run_result = Ok("END OF HELP SECTION")
                     /\ stdout # <<>>
                     /\ stdout[1] = IF project_type = NoProjectType
                                    THEN "CLI help" ELSE "PROJECT TYPE help" ) )

C10_Witness ==
    /\ pc = "exited"
    /\ project_type = "Django"
    /\ Len(flags) = 2
    /\ flags[1] = Test
    /\ flags[2] = Help
    /\ run_result = Ok("END OF HELP SECTION")
    /\ steps_run = <<>>

\* C11: a run that selects Next and passes the preflight ends with
\* run_program returning an error to its caller; it never returns Ok, never
\* creates a directory and never runs a step.
C11_NextReturnsNotImplemented ==
    ( /\ project_type = "Next"
      /\ build_result.kind = "Ok"
      /\ probes.result = "Ok"
      /\ pc \notin {"set_up"} )
    => ( /\ run_result.kind = "Err"
         /\ pc \in {"main_run", "exited"}
         /\ dirs_created = <<>>
         /\ steps_run = <<>> )

\* C12: with a Name flag carrying a value n (the last one, when there are
\* several) the orchestrator never prompts; under a Test flag it looks for
\* test_runs, creates it first when it is absent, and the project
\* directory is test_runs/n; without a Test flag the project directory is
\* n and test_runs is neither looked for nor created.
C12_ProjectDirFromTestAndName ==
    ( /\ project_type \in {"Django", "React"}
      /\ build_result.kind = "Ok"
      /\ NameFlags(flags) # {}
      /\ LastNameFlag(flags).value.some )
    => LET n == trim(LastNameFlag(flags).value.text)
       IN  /\ prompts = 0
           /\ fs # NoFs
              => IF is_test_run(flags)
                 THEN /\ proj_name = TestRunsDir \o Slash \o n
                      /\ fs.test_runs \in {"exists", "made", "failed"}
                      /\ fs.test_runs = "made"
                         => ( dirs_created # <<>> /\ dirs_created[1] = TestRunsDir )
                      /\ fs.test_runs = "exists"
                         => ( fs.project # "untried" /\ ~Contains(dirs_created, TestRunsDir) )
                      /\ fs.project = "made"
                         => dirs_created[Len(dirs_created)] = TestRunsDir \o Slash \o n
                 ELSE /\ proj_name = n
                      /\ fs.test_runs = "unchecked"
                      /\ ~Contains(dirs_created, TestRunsDir)
                      /\ fs.project = "made" => dirs_created = <<n>>

NoValueSpellings ==
    { LongHelp, ShortHelp, LongVerbose, ShortVerbose, LongTest, ShortTest }

\* The message of the error given for a key=value token whose key is in no
\* catalog entry
UnknownKeyMessage ==
    map_flag_with_value(<<"-","-","f","o","o">> \o Eq \o <<"x">>).error.message

\* C13: a token key=value whose key is a spelling of a flag that takes no
\* value makes build return an error, and that error is not the one given
\* for a key that is in no catalog entry.
C13_NoValueFlagErrorIsDistinct ==
    \A key \in NoValueSpellings :
        ( consumed >= 1 /\ starts_with(arg, key \o Eq) )
        => ( /\ build_result.kind = "Err"
             /\ build_result.error.message # UnknownKeyMessage )

EqPositions(s) == { i \in 1..Len(s) : s[i] = "=" }

\* C14: a flag token with more than one '=' whose text before the first
\* '=' is a spelling of the Name flag resolves to a Name flag whose value
\* is all the text after the first '=', the later '=' included.
C14_SplitAtFirstEqOnly ==
    ( /\ consumed >= 1
      /\ starts_with(arg, Dash)
      /\ Cardinality(EqPositions(arg)) > 1
      /\ SubSeq(arg, 1, FindIndex(EqPositions(arg)) - 1) \in {LongName, ShortName} )
    => ( /\ build_result.kind \in {"Pending", "Ok"}
         /\ flags # <<>>
         /\ flags[Len(flags)].tag = "Name"
         /\ flags[Len(flags)].value =
                ValueSome(SubSeq(arg, FindIndex(EqPositions(arg)) + 1, Len(arg))) )

\* C15: once check_for_required_tooling has returned after handing its
\* probes to a shell, it returned Ok exactly when no probe group was left
\* without a command that exited zero, and when it returned an error, the
\* error is the one of the first group without such a command.
C15_ToolingPassesIffEveryGroupMet ==
    ( probes.result # "Pending" /\ probes.run > 0 )
    => ( /\ probes.result = "Ok" <=> probes.unmet = 0
         /\ probes.result = "Err"
            => ( /\ probes.unmet # 0
                 /\ run_result.kind = "Err"
                 /\ run_result.error =
                        ProgramError(ProbeGroups(project_type)[probes.unmet].msg,
                                     DebugName(project_type)) ) )

\* C16: a name prompt, a directory creation or a step happens only after
\* check_for_required_tooling returned Ok; when it returned an error none
\* of them ever happens and run_program returns that error.
C16_PreflightBeforeOrchestration ==
    /\ ( \/ prompts > 0
         \/ fs # NoFs
         \/ dirs_created # <<>>
         \/ steps_run # <<>>
         \/ pc \in {"set_up", "mkdir", "steps", "cd"} )
       => probes.result = "Ok"
    /\ probes.result = "Err"
       => ( /\ prompts = 0
            /\ fs = NoFs
            /\ dirs_created = <<>>
            /\ steps_run = <<>>
            /\ pc \in {"main_run", "exited"}
            /\ run_result = Err(ProgramError(ProbeGroups(project_type)[group].msg,
                                             DebugName(project_type))) )

C16_Witness ==
    /\ probes.result = "Err"
    /\ project_type = "Django"
    /\ group = 2
    /\ probes.run = 4
    /\ pc = "exited"

\* C17: in a run that created its project directory the steps run are the
\* declared steps, in order and each once, and all but the last exited
\* zero; once the run has ended, it returned either DONE after all steps
\* exited zero or the error of the step run last, which failed; the
\* directories created are still there.
C17_DoneOrAbortedAtFirstFailure ==
    fs.project = "made"
    => LET steps == Steps(project_type, os)
           n == Len(steps_run)
       IN  /\ pc \in {"steps", "cd", "main_run", "exited"}
           /\ n <= Len(steps)
           /\ \A i \in 1..n : steps_run[i].cmd = steps[i].cmd
           /\ \A i \in 1..(n - 1) : steps_run[i].outcome = "exit_zero"
           /\ dirs_created # <<>>
           /\ dirs_created[Len(dirs_created)] = proj_name
           /\ fs.test_runs = "made" => dirs_created = <<TestRunsDir, proj_name>>
           /\ pc \in {"main_run", "exited"}
              => ( /\ n >= 1
                   /\ \/ /\ run_result = Ok("DONE")
                         /\ n = Len(steps)
                         /\ steps_run[n].outcome = "exit_zero"
                      \/ /\ run_result.kind = "Err"
                         /\ steps_run[n].outcome # "exit_zero"
                         /\ run_result.error.message = steps[n].err_msg )

C17_Witness ==
    /\ fs = [test_runs |-> "made", project |-> "made"]
    /\ project_type = "React"
    /\ Len(steps_run) = 2
    /\ steps_run[2].outcome = "exit_nonzero"
    /\ run_result.kind = "Err"
    /\ dirs_created = <<TestRunsDir, proj_name>>
    /\ pc = "exited"

\* C18: when the project directory cannot be created (it exists already,
\* or the file system refuses), the orchestrator returns the project-folder
\* error and no step runs; when, under a test run, test_runs cannot be
\* created, it returns the test_runs error, the project directory is not
\* tried and no step runs.
C18_DirectoryFailureAborts ==
    /\ fs.project = "failed"
       => ( /\ run_result = Err(ProgramError(MsgProjectDir, IoErrorText))
            /\ ~Contains(dirs_created, proj_name)
            /\ terminal = NoTerminal
            /\ steps_run = <<>>
            /\ pc \in {"main_run", "exited"} )
    /\ fs.test_runs = "failed"
       => ( /\ is_test_run(flags)
            /\ run_result = Err(ProgramError(MsgTestRunsDir, IoErrorText))
            /\ fs.project = "untried"
            /\ dirs_created = <<>>
            /\ terminal = NoTerminal
            /\ steps_run = <<>>
            /\ pc \in {"main_run", "exited"} )

C18_Witness ==
    /\ fs = [test_runs |-> "made", project |-> "failed"]
    /\ proj_name = TestRunsDir \o Slash \o <<"w","e","b">>
    /\ dirs_created = <<TestRunsDir>>
    /\ run_result.kind = "Err"
    /\ pc = "exited"

\* C19: every step runs with the shell prefix the Terminal was constructed
\* with; after a step, whether it succeeded or failed, the Terminal still
\* has the working directory and the shell prefix the step ran with, unless
\* the React orchestrator repointed it after its first step; every step of
\* a Django run runs in the project directory that was created.
C19_RunCmdLeavesTerminalAlone ==
    LET n == Len(steps_run)
        shell == IF os = "windows" THEN <<"cmd", "/C">> ELSE <<"sh", "-c">>
    IN  /\ \A i \in 1..n : steps_run[i].shell = shell
        /\ n >= 1
           => ( /\ terminal.base_shell_args = shell
                /\ \/ terminal.working_dir = steps_run[n].dir
                   \/ ( /\ project_type = "React"
                        /\ n = 1
                        /\ pc = "steps"
                        /\ cd_entry # <<>> ) )
        /\ project_type = "Django"
           => \A i \in 1..n :
                  /\ steps_run[i].dir = join(CurrentDir, proj_name)
                  /\ dirs_created[Len(dirs_created)] = proj_name

C19_Witness ==
    /\ project_type = "Django"
    /\ os = "windows"
    /\ Len(steps_run) = 4
    /\ steps_run[4].outcome = "exit_nonzero"
    /\ steps_run[4].dir = join(CurrentDir, proj_name)
    /\ terminal.working_dir = steps_run[1].dir
    /\ pc = "exited"

C21_NoProjectTypeIsErrorWithoutEffect ==
    /\ ( consumed = 0 /\ build_result.kind # "Pending" )
       => ( /\ build_result.kind = "Ok"
            /\ project_type = NoProjectType
            /\ flags = <<>> )
    /\ ( /\ build_result.kind = "Ok"
         /\ project_type = NoProjectType
         /\ ~Contains(flags, Help) )
       => ( /\ pc \in {"main_args", "main_run", "exited"}
            /\ probes = NoProbes
            /\ prompts = 0
            /\ fs = NoFs
            /\ dirs_created = <<>>
            /\ steps_run = <<>>
            /\ pc \in {"main_run", "exited"}
               => run_result = Err(ProgramError("No valid project type provided", <<>>)) )

C21_Witness ==
    /\ consumed = 0
    /\ build_result.kind = "Ok"
    /\ run_result.kind = "Err"
    /\ probes = NoProbes
    /\ pc = "exited"

ValuedNameFlags(fl) == { i \in NameFlags(fl) : fl[i].value.some }

\* C22: once an orchestrator has resolved the project name, it has prompted
\* once when no Name flag among the resolved flags carries a value, and not
\* at all when one does, in which case the name is the value of such a
\* flag; the prompt comes before any directory is created.
C22_PromptIffNoValuedName ==
    ( /\ project_type \in {"Django", "React"}
      /\ probes.result = "Ok"
      /\ pc # "set_up" )
    => ( /\ prompts = IF ValuedNameFlags(flags) = {} THEN 1 ELSE 0
         /\ pc = "mkdir"
            => ( /\ fs = NoFs
                 /\ dirs_created = <<>>
                 /\ ValuedNameFlags(flags) # {}
                    => \E i \in ValuedNameFlags(flags) :
                           proj_name = trim(flags[i].value.text) ) )

\* C23: wherever build stands when it consumes a token, the token --name=
\* or -n= in its place is accepted: build goes on, the project type is
\* left alone and the flag appended is a Name flag carrying the empty
\* string; and when the token consumed is one of the two, that is what the
\* step did.
C23_EmptyNameValueAccepted ==
    [][ ( pc = "build" /\ consumed' = consumed + 1 )
        => \A token \in { LongName \o Eq, ShortName \o Eq } :
               LET it == build_iter(project_type, flags, normalise(token))
               IN  /\ it.result.kind = "Pending"
                   /\ it.project_type = project_type
                   /\ it.flags = Append(flags, Name(ValueSome(<<>>)))
                   /\ it.flags[Len(it.flags)] # Name(ValueNone)
                   /\ arg' = token
                      => ( /\ build_result' = it.result
                           /\ project_type' = it.project_type
                           /\ flags' = it.flags )
      ]_vars

C23_Witness ==
    /\ consumed = 2
    /\ arg = LongName \o Eq
    /\ project_type = "Django"
    /\ build_result.kind = "Ok"
    /\ flags = <<Name(ValueSome(<<>>))>>

\* The text of a token between its first and its last character that is
\* not whitespace
Core(s) ==
    IF \A i \in 1..Len(s) : s[i] \in WhiteSpace
    THEN <<>>
    ELSE SubSeq(s,
                CHOOSE i \in 1..Len(s) :
                    s[i] \notin WhiteSpace /\ \A j \in 1..(i - 1) : s[j] \in WhiteSpace,
                CHOOSE i \in 1..Len(s) :
                    s[i] \notin WhiteSpace /\ \A j \in (i + 1)..Len(s) : s[j] \in WhiteSpace)

\* Two tokens that differ only in the case of their letters and in leading
\* or trailing whitespace
SameUpToCaseAndSpace(a, b) ==
    LET ca == Core(a)
        cb == Core(b)
    IN  /\ Len(ca) = Len(cb)
        /\ \A i \in 1..Len(ca) :
               \/ ca[i] = cb[i]
               \/ \E k \in 1..Len(UpperLetters) :
                      {ca[i], cb[i]} = {UpperLetters[k], LowerLetters[k]}

\* What build returns when it stops after an iteration: its error or
\* panic, or else the ProgramArguments it has collected
Outcome(it) ==
    IF it.result.kind = "Pending"
    THEN [project_type |-> it.project_type, flags |-> it.flags]
    ELSE it.result

\* C24: at every token build consumes, (1) any token that differs from it
\* only in letter case and surrounding whitespace would have led to the
\* same project type, flags and result; (2) a flag token that resolves is
\* appended to the flags and leaves the project type alone, whatever the
\* project type is; (3) when no project type is recorded yet and the token
\* is a flag token, a keyword consumed right before it instead of right
\* after it leads to the same outcome.
C24_CaseSpaceAndPositionInsensitive ==
    [][ ( pc = "build" /\ consumed' = consumed + 1 )
        => LET here == [project_type |-> project_type', flags |-> flags',
                        result |-> build_result']
           IN  /\ \A token \in TokenPool :
                      SameUpToCaseAndSpace(token, raw')
                      => build_iter(project_type, flags, normalise(token)) = here
               /\ ( starts_with(arg', Dash) /\ build_result'.kind = "Pending" )
                  => ( /\ project_type' = project_type
                       /\ flags' = Append(flags, map_string_to_flag(arg').item) )
               /\ ( starts_with(arg', Dash) /\ project_type = NoProjectType )
                  => \A kw \in Keywords :
                         LET after == IF here.result.kind = "Pending"
                                      THEN build_iter(project_type', flags', kw)
                                      ELSE here
                             first == build_iter(project_type, flags, kw)
                             before == build_iter(first.project_type, first.flags, arg')
                         IN  /\ first.result.kind = "Pending"
                             /\ Outcome(before) = Outcome(after)
      ]_vars

C24_Witness ==
    /\ consumed = 3
    /\ raw = <<" ","R","e","a","c","t">>
    /\ project_type = "React"
    /\ flags = <<Name(ValueSome(ValApp)), Test>>
    /\ build_result.kind = "Ok"

====
